---- MODULE Spec2Model ----
(***************************************************************************)
(* Model of part2/main.py: the batch pipeline that reads the five sheets   *)
(* of input_business_data.xlsx, cleans Orders, joins Products, Customers   *)
(* and Returns into the Model_Data fact table, derives the per-row         *)
(* metrics, aggregates KPIs / pivots / RFM and writes Business_Report.xlsx.*)
(*                                                                         *)
(* A data-frame is a sequence of records (rows, in row order).  A cell is  *)
(* a record [k, v]: k = "num" carries the number v, k = "na" is a missing  *)
(* value (NaN / NaT / None), k = "txt" is a non-numeric token of the raw   *)
(* sheet.  Money is fixed point: unit_price and cost count half currency   *)
(* units (raw prices are even, so the median of two is exact), the derived *)
(* amounts count 1/(Percent*Percent) of that (so the two percentage        *)
(* products are exact), tax_rate counts percent.  Dates are day ordinals   *)
(* of 2025 (1 = Jan 1st).                                                  *)
(*                                                                         *)
(* Modelled: sections 1-8, 10, 11, 13 and 14 of main().  The columns and   *)
(* tables that only pass through (payment_mode, city, segment, quarter,    *)
(* week, margin_pct, Pivot_Category, Target_vs_Actual, Anomalies) are left *)
(* out: they are computed from `model` and change nothing of the state     *)
(* below.                                                                  *)
(***************************************************************************)
EXTENDS Integers, Sequences, FiniteSets, TLC

VARIABLES
    pc,                 \* position of main(): the numbered section to run next
    xlsx,               \* the sheets of INPUT_FILE (never written)
    orders,             \* main.py `orders`
    products,           \* main.py `products`
    customers,          \* main.py `customers`
    returns_flag,       \* main.py `returns_flag`
    model,              \* main.py `model`
    kpis,               \* main.py `kpis` (Metric -> Value)
    pivot_region_month, \* main.py `pivot_region_month`
    prod,               \* main.py `prod` (the Pareto ranking)
    rfm,                \* main.py `rfm`
    orphan_products,    \* main.py `orphan_products`
    orphan_customers,   \* main.py `orphan_customers`
    file,               \* content of OUTPUT_FILE on disk
    error               \* the exception that ended main(), "None" so far

vars == <<pc, xlsx, orders, products, customers, returns_flag, model, kpis,
          pivot_region_month, prod, rfm, orphan_products, orphan_customers, file,
          error>>

----------------------------------------------------------------------------
(* Cells *)

NA == [k |-> "na", v |-> 0]
Num(n) == [k |-> "num", v |-> n]
Txt == [k |-> "txt", v |-> 0]
IsNA(c) == c.k = "na"
NotNA(c) == c.k # "na"

\* pd.to_numeric(..., errors="coerce") / pd.to_datetime(..., errors="coerce")
Coerce(c) == IF c.k = "num" THEN c ELSE NA

\* Series.fillna(value)
FillNA(c, value) == IF IsNA(c) THEN value ELSE c

\* Element-wise float arithmetic: a missing operand gives a missing result.
Mul(a, b) == IF IsNA(a) \/ IsNA(b) THEN NA ELSE Num(a.v * b.v)
Sub(a, b) == IF IsNA(a) \/ IsNA(b) THEN NA ELSE Num(a.v - b.v)
DivBy(a, n) == IF IsNA(a) THEN NA ELSE Num(a.v \div n)

----------------------------------------------------------------------------
(* Program constants *)

\* discount_pct / 100.0; tax_rate is counted in percent as well.
Percent == 100

\* pd.qcut(..., 5, ...)
Quintiles == 5

\* prod.head(200)
ParetoCap == 200

----------------------------------------------------------------------------
(* Sequence helpers *)

Range(s) == {s[i] : i \in DOMAIN s}

\* The sum of a sequence of integers (by halves).
RECURSIVE SeqSum(_)
SeqSum(s) ==
    IF s = <<>> THEN 0
    ELSE IF Len(s) = 1 THEN s[1]
    ELSE SeqSum(SubSeq(s, 1, Len(s) \div 2))
         + SeqSum(SubSeq(s, Len(s) \div 2 + 1, Len(s)))

\* The rows of s at the positions in I, in row order (boolean-mask selection).
RECURSIVE Rows(_, _, _, _)
Rows(s, I, lo, hi) ==
    IF lo > hi THEN <<>>
    ELSE IF lo = hi THEN (IF lo \in I THEN <<s[lo]>> ELSE <<>>)
    ELSE Rows(s, I, lo, (lo + hi) \div 2)
         \o Rows(s, I, (lo + hi) \div 2 + 1, hi)

Mask(s, I) == Rows(s, I, 1, Len(s))

\* Ascending sort of a sequence of integers: s[i] goes to the place after
\* the smaller values and the equal values before it.
Sorted(s) ==
    LET place == [i \in DOMAIN s |->
                    1 + Cardinality({j \in DOMAIN s :
                                        \/ s[j] < s[i]
                                        \/ s[j] = s[i] /\ j < i})]
    IN  [p \in DOMAIN s |-> s[CHOOSE i \in DOMAIN s : place[i] = p]]

\* Sequences over S of length at most n.
SeqUpTo(S, n) == UNION {[1..m -> S] : m \in 0..n}

----------------------------------------------------------------------------
(* The input workbook: rows of the five sheets (input_business_data.py).   *)

StrNA == [k |-> "na", v |-> ""]
Str(s) == [k |-> "str", v |-> s]

\* A region/city/segment text cell: the word, whether it carries surrounding
\* blanks, and its casing ("lower", "upper" or "title").
Text(word, pad, caps) == [k |-> "str", v |-> word, pad |-> pad, caps |-> caps]
TextNA == [k |-> "na", v |-> "", pad |-> FALSE, caps |-> "title"]

Order(oid, date, cust, pid, qty, price, disc) ==
    [order_id |-> oid, order_date |-> date, customer_id |-> cust,
     product_id |-> pid, qty |-> qty, unit_price |-> price,
     discount_pct |-> disc]

Product(id, category) ==
    [product_id |-> Num(id),
     product_name |-> Str(IF id = 1 THEN "Product_0" ELSE "Product_1"),
     category |-> category,
     cost |-> IF id = 1 THEN Num(6) ELSE Num(4),
     tax_rate |-> IF id = 1 THEN Num(10) ELSE NA]

Customer(id, region) == [customer_id |-> Num(id), region |-> region]

Return(oid) == [order_id |-> oid]

\* Bounds on the number of rows of each sheet.
MaxOrders == 3
MaxProducts == 2
MaxCustomers == 2
MaxReturns == 2
MaxRFMCustomers == 5

\* Rows of the Orders sheet: clean rows, rows sharing an order_id, and
\* rows with a non-positive qty or a missing, unreadable or negative
\* unit_price.
OrderRows ==
    { Order(Num(1), Num(31), Num(1), Num(1), Num(2), Num(10), Num(10)),
      Order(Num(2), Num(32), Num(2), Num(2), Num(1), Num(20), NA),
      Order(Num(1), Num(32), Num(2), Num(1), Num(1), Num(40), Num(0)),
      Order(Num(1), Num(31), Num(1), Num(1), Num(0), Num(60), Num(0)),
      Order(Num(3), Num(33), Num(1), Num(1), Num(-1), Num(20), Num(0)),
      Order(Num(3), Num(33), Num(1), Num(2), Num(1), NA, Num(50)),
      Order(Num(2), Num(32), Num(2), Num(1), Num(3), Txt, Num(0)),
      Order(Num(3), Num(33), Num(2), Num(1), Num(1), Num(-4), Num(0)) }

\* Rows of the Orders sheet: clean rows and rows with a missing or
\* unreadable order_id, order_date, customer_id, product_id or qty.
IdentityRows ==
    { Order(Num(1), Num(31), Num(1), Num(1), Num(2), Num(10), Num(10)),
      Order(Num(2), Num(32), Num(2), Num(2), Num(1), Num(20), NA),
      Order(NA, Num(31), Num(1), Num(1), Num(1), Num(10), Num(0)),
      Order(Num(2), Txt, Num(1), Num(1), Num(1), Num(10), Num(0)),
      Order(Num(2), Num(32), NA, Num(1), Num(1), Num(10), Num(0)),
      Order(Num(3), Num(33), Num(1), NA, Num(1), Num(10), Num(0)),
      Order(Num(3), Num(33), Num(2), Num(1), Txt, Num(10), Num(0)) }

ProductRows ==
    { Product(1, Str("Grocery")), Product(1, StrNA), Product(2, Str("Home")) }

CustomerRows ==
    { Customer(1, Text("east", TRUE, "lower")), Customer(1, TextNA),
      Customer(2, Text("North", FALSE, "title")) }

ReturnRows == { Return(Num(1)), Return(Num(3)), Return(NA) }

ProductsSheet == << Product(1, Str("Grocery")), Product(2, Str("Home")) >>
CustomersSheet ==
    << Customer(1, Text("east", TRUE, "lower")),
       Customer(2, Text("North", FALSE, "title")) >>
ReturnsSheet == << Return(Num(1)) >>

\* Orders that reference products and customers 1, 2 and the unknown 3.
JoinOrders ==
    { << Order(Num(1), Num(31), Num(1), Num(1), Num(2), Num(10), Num(10)),
         Order(Num(2), Num(32), Num(2), Num(2), Num(1), Num(20), Num(0)) >>,
      << Order(Num(1), Num(31), Num(1), Num(1), Num(2), Num(10), Num(10)),
         Order(Num(2), Num(32), Num(2), Num(2), Num(1), Num(20), Num(0)),
         Order(Num(3), Num(33), Num(3), Num(3), Num(1), Num(40), Num(0)) >>,
      << Order(Num(1), Num(31), Num(1), Num(2), Num(2), Num(10), Num(10)),
         Order(Num(2), Num(32), Num(2), Num(1), Num(1), Num(20), Num(0)),
         Order(Num(3), Num(31), Num(2), Num(1), Num(1), Num(40), Num(0)) >> }

Workbook(o, p, c, r) ==
    [Orders |-> o, Products |-> p, Customers |-> c, Returns |-> r]

\* Workbooks whose Orders sheet varies (the reference sheets are clean).
CleaningInputs ==
    { Workbook(o, ProductsSheet, CustomersSheet, ReturnsSheet) :
        o \in SeqUpTo(OrderRows, MaxOrders) \cup SeqUpTo(IdentityRows, MaxOrders) }

\* Workbooks whose Products, Customers or Returns sheets vary.
JoinInputs ==
    { Workbook(o, p, c, ReturnsSheet) :
        o \in JoinOrders, p \in SeqUpTo(ProductRows, MaxProducts),
        c \in SeqUpTo(CustomerRows, MaxCustomers) }
    \cup
    { Workbook(o, ProductsSheet, CustomersSheet, r) :
        o \in JoinOrders, r \in SeqUpTo(ReturnRows, MaxReturns) }

Inputs == CleaningInputs \cup JoinInputs

\* Workbooks for the customer segmentation: order i of n, one unit of
\* product 1 without discount, with its customer, day or price varying.
RfmOrder(i, cust, date, price) ==
    Order(Num(i), Num(date), Num(cust), Num(1), Num(1), Num(price), Num(0))

\* A larger customer base: two fifths of it are Quintiles customers.
RfmLarge == 2 * Quintiles

RfmCustomers ==
    [i \in 1..RfmLarge |-> Customer(i, Text("North", FALSE, "title"))]

RfmDates == {31, 32, 33}
RfmPrices == {2, 4, 6}

\* n pairwise distinct prices in the order i |-> (a * i + b) mod (RfmLarge + 1).
DistinctPrices(n) ==
    { [i \in 1..n |-> 2 * (((a * i + b) % (RfmLarge + 1)) + 1)] :
        a \in 1..RfmLarge, b \in 0..RfmLarge }

RfmOrders ==
    UNION { { [i \in 1..n |-> RfmOrder(i, i, d[i], 2 * i)] :
                d \in [1..n -> RfmDates] }
            \cup
            { [i \in 1..n |-> RfmOrder(i, i, 30 + i, p[i])] :
                p \in [1..n -> RfmPrices] \cup DistinctPrices(n) }
            \cup
            { [i \in 1..n |-> RfmOrder(i, c[i], 30 + i, 10)] :
                c \in [1..n -> 1..2] }
          : n \in 1..MaxRFMCustomers }
    \cup
    { [i \in 1..RfmLarge |-> RfmOrder(i, i, 30 + i, p[i])] :
        p \in DistinctPrices(RfmLarge) }

RfmInputs ==
    { Workbook(o, ProductsSheet, RfmCustomers, ReturnsSheet) : o \in RfmOrders }

\* Workbooks for the Pareto ranking: order i of n, by customers 1 and 2 in
\* turn, is one unit at price 10 of product 1, 2 or the unknown 3, at a
\* discount of 0, 50 or 100 percent.
ParetoOrder(i, cust, pid, price, disc) ==
    Order(Num(i), Num(30 + cust), Num(cust), Num(pid), Num(1), Num(price),
          Num(disc))

ParetoDiscounts == {0, 50, 100}

MaxParetoOrders == 3

ParetoOrders ==
    UNION { { [i \in 1..n |-> ParetoOrder(i, 1 + (i % 2), p[i], 10, d[i])] :
                p \in [1..n -> 1..3], d \in [1..n -> ParetoDiscounts] }
          : n \in 0..MaxParetoOrders }

\* A catalogue of n products named as the generator names them.
ParetoCatalogue(n) ==
    [i \in 1..n |->
        [product_id |-> Num(i),
         product_name |-> Str("Product_" \o ToString(i - 1)),
         category |-> Str("Grocery"), cost |-> Num(6), tax_rate |-> Num(10)]]

\* One order per product of a catalogue of n products, by customers 1 and
\* 2 in turn, at prices that fall or are all equal; the last `free`
\* products are given away (discount 100).
ParetoLargeOrders(n) ==
    { [i \in 1..n |->
          ParetoOrder(i, 1 + (i % 2), i, IF flat THEN 10 ELSE 2 * (n + 1 - i),
                      IF i > n - free THEN 100 ELSE 0)] :
        flat \in BOOLEAN, free \in {0, 1, n} }

ParetoInputs ==
    { Workbook(o, ProductsSheet, CustomersSheet, ReturnsSheet) :
        o \in ParetoOrders }
    \cup
    UNION { { Workbook(o, ParetoCatalogue(n), CustomersSheet, ReturnsSheet) :
                o \in ParetoLargeOrders(n) }
          : n \in {ParetoCap, ParetoCap + 1} }

EmptyKpis == [m \in {} |-> 0]

\* OUTPUT_FILE: absent, or a workbook holding some sheets, styled or not.
NoFile == [exists |-> FALSE, sheets |-> {}, formatted |-> FALSE]

Start(inputs) ==
    /\ xlsx \in inputs
    /\ pc = "read"
    /\ orders = <<>>
    /\ products = <<>>
    /\ customers = <<>>
    /\ returns_flag = <<>>
    /\ model = <<>>
    /\ kpis = EmptyKpis
    /\ pivot_region_month = <<>>
    /\ prod = <<>>
    /\ rfm = <<>>
    /\ orphan_products = 0
    /\ orphan_customers = 0
    /\ file = NoFile
    /\ error = "None"

Init == Start(Inputs)
InitRfm == Start(RfmInputs)
InitPareto == Start(ParetoInputs)

----------------------------------------------------------------------------
(* 1) Read all sheets *)

ReadSheets ==
    /\ pc = "read"
    /\ orders' = xlsx.Orders
    /\ products' = xlsx.Products
    /\ customers' = xlsx.Customers
    /\ pc' = "clean_customers"
    /\ UNCHANGED <<error, xlsx, prod, returns_flag, model, kpis, pivot_region_month, rfm,
                   orphan_products, orphan_customers, file>>

----------------------------------------------------------------------------
(* 2) Cleaning - Customers *)

\* Series.astype(str): a missing value becomes the text "nan".
AsType_str(c) == IF IsNA(c) THEN Text("nan", FALSE, "lower") ELSE c

\* .str.strip().str.title()
StripTitle(c) == [c EXCEPT !.pad = FALSE, !.caps = "title"]

CleanRegion(c) == StripTitle(AsType_str(c))

CleanCustomers ==
    /\ pc = "clean_customers"
    /\ customers' = [i \in DOMAIN customers |->
                        [customers[i] EXCEPT !.region = CleanRegion(@)]]
    /\ pc' = "clean_orders"
    /\ UNCHANGED <<error, xlsx, prod, orders, products, returns_flag, model, kpis,
                   pivot_region_month, rfm, orphan_products, orphan_customers,
                   file>>

----------------------------------------------------------------------------
(* 3) Cleaning - Orders *)

\* Coercion of the four typed columns; a missing discount_pct becomes 0.
CoerceOrder(r) ==
    [r EXCEPT !.order_date = Coerce(@), !.unit_price = Coerce(@),
              !.qty = Coerce(@), !.discount_pct = FillNA(Coerce(@), Num(0))]

\* DataFrame.dropna(subset=[order_id, order_date, customer_id, product_id])
DropNA(df) ==
    Mask(df, {i \in DOMAIN df :
                 /\ NotNA(df[i].order_id) /\ NotNA(df[i].order_date)
                 /\ NotNA(df[i].customer_id) /\ NotNA(df[i].product_id)})

\* orders[orders["qty"] > 0]: a missing qty compares False.
PositiveQty(df) ==
    Mask(df, {i \in DOMAIN df : NotNA(df[i].qty) /\ df[i].qty.v > 0})

\* The non-missing unit_price values of df, in row order.
Prices(df) ==
    LET m == Mask(df, {i \in DOMAIN df : NotNA(df[i].unit_price)})
    IN  [i \in DOMAIN m |-> m[i].unit_price.v]

\* Series.median(): skips missing values; missing when none is left.
Median(df) ==
    LET s == Sorted(Prices(df))
        n == Len(s)
    IN  IF n = 0 THEN NA
        ELSE IF n % 2 = 1 THEN Num(s[(n + 1) \div 2])
        ELSE Num((s[n \div 2] + s[n \div 2 + 1]) \div 2)

FillPrice(df) ==
    LET m == Median(df)
    IN  [i \in DOMAIN df |-> [df[i] EXCEPT !.unit_price = FillNA(@, m)]]

\* (mutant) drop_duplicates(subset=["order_id"], keep="last").
DropDuplicatesLast(df) ==
    Mask(df, {i \in DOMAIN df :
                 \A j \in (i + 1)..Len(df) : df[j].order_id # df[i].order_id})

\* DataFrame.drop_duplicates(subset=["order_id"]): keeps the first row of
\* each order_id.
DropDuplicates(df) ==
    Mask(df, {i \in DOMAIN df :
                 \A j \in 1..(i - 1) : df[j].order_id # df[i].order_id})

CleanedOrders(df) ==
    DropDuplicates(FillPrice(PositiveQty(DropNA(
        [i \in DOMAIN df |-> CoerceOrder(df[i])]))))

CleanOrders ==
    /\ pc = "clean_orders"
    /\ orders' = CleanedOrders(orders)
    /\ pc' = "returns"
    /\ UNCHANGED <<error, xlsx, prod, products, customers, returns_flag, model, kpis,
                   pivot_region_month, rfm, orphan_products, orphan_customers,
                   file>>

----------------------------------------------------------------------------
(* 4) Returns integration *)

\* (mutant) the Returns order_ids flagged without drop_duplicates().
ReturnsFlagNoDedup(ret) ==
    [i \in DOMAIN ret |-> [order_id |-> ret[i].order_id, is_returned |-> Num(1)]]

\* returns[["order_id"]].drop_duplicates() with the constant column
\* is_returned = 1.
ReturnsFlag(ret) ==
    LET d == DropDuplicates(ret)
    IN  [i \in DOMAIN d |-> [order_id |-> d[i].order_id, is_returned |-> Num(1)]]

ReturnsIntegration ==
    /\ pc = "returns"
    /\ returns_flag' = ReturnsFlag(xlsx.Returns)
    /\ pc' = "merge"
    /\ UNCHANGED <<error, xlsx, prod, orders, products, customers, model, kpis,
                   pivot_region_month, rfm, orphan_products, orphan_customers,
                   file>>

----------------------------------------------------------------------------
(* 5) Merge / Model Data *)

\* validate="many_to_one": the merge keys of the right frame are unique.
UniqueKeys(right, key) ==
    \A i, j \in DOMAIN right : right[i][key] = right[j][key] => i = j

\* DataFrame.merge(right, on=key, how="left"): every left row, in order,
\* once per right row with its key, or once with the right columns missing.
RECURSIVE LeftMerge(_, _, _, _)
LeftMerge(left, right, key, missing) ==
    IF left = <<>> THEN <<>>
    ELSE IF Len(left) = 1
    THEN LET l == left[1]
             m == Mask(right, {j \in DOMAIN right : right[j][key] = l[key]})
         IN  IF m = <<>> THEN << l @@ missing >>
             ELSE [j \in DOMAIN m |-> l @@ m[j]]
    ELSE LeftMerge(SubSeq(left, 1, Len(left) \div 2), right, key, missing)
         \o LeftMerge(SubSeq(left, Len(left) \div 2 + 1, Len(left)),
                      right, key, missing)

NoProduct ==
    [product_name |-> StrNA, category |-> StrNA, cost |-> NA, tax_rate |-> NA]
NoCustomer == [region |-> TextNA]
NoReturn == [is_returned |-> NA]

Merged(o, p, c, rf) ==
    LET m == LeftMerge(LeftMerge(LeftMerge(o, p, "product_id", NoProduct),
                                 c, "customer_id", NoCustomer),
                       rf, "order_id", NoReturn)
    IN  [i \in DOMAIN m |-> [m[i] EXCEPT !.is_returned = FillNA(@, Num(0))]]

\* Series.isna().sum()
CountNA(df, col) == Cardinality({i \in DOMAIN df : IsNA(df[i][col])})

OrphanProducts(df) == CountNA(df, "category")
OrphanCustomers(df) == CountNA(df, "region")

Merge ==
    /\ pc = "merge"
    /\ IF UniqueKeys(products, "product_id") /\ UniqueKeys(customers, "customer_id")
       THEN /\ model' = Merged(orders, products, customers, returns_flag)
            /\ orphan_products' = OrphanProducts(model')
            /\ orphan_customers' = OrphanCustomers(model')
            /\ pc' = "calc"
            /\ UNCHANGED error
       ELSE /\ pc' = "failed"
            /\ error' = "MergeError"
            /\ UNCHANGED <<model, orphan_products, orphan_customers>>
    /\ UNCHANGED <<xlsx, prod, orders, products, customers, returns_flag, kpis,
                   pivot_region_month, rfm, file>>

----------------------------------------------------------------------------
(* 6) Calculated columns *)


\* to_period("M"): day ordinals 1..31 are 2025-01 (month 1), 32..59 are
\* 2025-02 (month 2).
MonthOf(d) == IF d.v <= 31 THEN 1 ELSE 2

GrossSales(r) == Mul(Mul(r.qty, r.unit_price), Num(Percent * Percent))
DiscountAmt(r) == DivBy(Mul(GrossSales(r), r.discount_pct), Percent)
NetSales(r) == Sub(GrossSales(r), DiscountAmt(r))
\* (mutant) tax_amt without the fillna(0) of tax_rate.
TaxAmtNoFill(r) == DivBy(Mul(NetSales(r), r.tax_rate), Percent)

TaxAmt(r) == DivBy(Mul(NetSales(r), FillNA(r.tax_rate, Num(0))), Percent)
Cogs(r) == Mul(Mul(r.qty, FillNA(r.cost, Num(0))), Num(Percent * Percent))
Profit(r) == Sub(Sub(NetSales(r), TaxAmt(r)), Cogs(r))

Calculated(r) ==
    r @@ [gross_sales |-> GrossSales(r), discount_amt |-> DiscountAmt(r),
          net_sales |-> NetSales(r), tax_amt |-> TaxAmt(r), cogs |-> Cogs(r),
          profit |-> Profit(r), month |-> MonthOf(r.order_date)]

CalcColumns ==
    /\ pc = "calc"
    /\ model' = [i \in DOMAIN model |-> Calculated(model[i])]
    /\ pc' = "kpis"
    /\ UNCHANGED <<error, xlsx, prod, orders, products, customers, returns_flag, kpis,
                   pivot_region_month, rfm, orphan_products, orphan_customers,
                   file>>

----------------------------------------------------------------------------
(* 7) KPIs *)

\* Series.sum() over the rows at positions I: missing values are skipped.
RECURSIVE SumRange(_, _, _, _, _)
SumRange(df, col, I, lo, hi) ==
    IF lo > hi THEN 0
    ELSE IF lo = hi
    THEN (IF lo \in I /\ NotNA(df[lo][col]) THEN df[lo][col].v ELSE 0)
    ELSE SumRange(df, col, I, lo, (lo + hi) \div 2)
         + SumRange(df, col, I, (lo + hi) \div 2 + 1, hi)

SumOver(df, col, I) == SumRange(df, col, I, 1, Len(df))

Sum(df, col) == SumOver(df, col, DOMAIN df)

\* Series.nunique()
NUnique(df, col) == Cardinality({df[i][col] : i \in DOMAIN df})

\* The ratio metrics (Margin %, Return Rate, AOV) are not modelled.
Kpis(df, op, oc) ==
    [m \in {"Total Net Sales", "Total Profit", "Unique Customers",
            "Orphan Product Rows", "Orphan Customer Rows"} |->
        CASE m = "Total Net Sales" -> Sum(df, "net_sales")
          [] m = "Total Profit" -> Sum(df, "profit")
          [] m = "Unique Customers" -> NUnique(df, "customer_id")
          [] m = "Orphan Product Rows" -> op
          [] m = "Orphan Customer Rows" -> oc]

KPIs ==
    /\ pc = "kpis"
    /\ kpis' = Kpis(model, orphan_products, orphan_customers)
    /\ pc' = "pivots"
    /\ UNCHANGED <<error, xlsx, prod, orders, products, customers, returns_flag, model,
                   pivot_region_month, rfm, orphan_products, orphan_customers,
                   file>>

----------------------------------------------------------------------------
(* 8) Pivots *)

\* groupby(["month","region"], dropna=False): the groups, rows with a
\* missing region forming groups of their own.
\* (mutant) groupby with the default dropna=True.
GroupKeysDropNA(df) ==
    {<<df[i].month, df[i].region>> : i \in {j \in DOMAIN df : NotNA(df[j].region)}}

GroupKeys(df) == {<<df[i].month, df[i].region>> : i \in DOMAIN df}

GroupRow(df, g) ==
    LET I == {i \in DOMAIN df : df[i].month = g[1] /\ df[i].region = g[2]}
    IN  [month |-> g[1], region |-> g[2],
         net_sales |-> SumOver(df, "net_sales", I),
         profit |-> SumOver(df, "profit", I),
         orders |-> Cardinality(I),
         returns |-> SumOver(df, "is_returned", I)]

\* sort_values(["month","net_sales"], ascending=[True, False]); the order
\* of rows equal in both is left open.
RECURSIVE SortPivot(_)
SortPivot(S) ==
    IF S = {} THEN <<>>
    ELSE LET r == CHOOSE x \in S : \A y \in S :
                      \/ x.month < y.month
                      \/ x.month = y.month /\ x.net_sales >= y.net_sales
         IN  <<r>> \o SortPivot(S \ {r})

PivotRegionMonth(df) == SortPivot({GroupRow(df, g) : g \in GroupKeys(df)})

Pivots ==
    /\ pc = "pivots"
    /\ pivot_region_month' = PivotRegionMonth(model)
    /\ pc' = "pareto"
    /\ UNCHANGED <<error, xlsx, prod, orders, products, customers, returns_flag, model, kpis,
                   rfm, orphan_products, orphan_customers, file>>

----------------------------------------------------------------------------
(* 10) Pareto (80/20) *)

\* Float division: a quotient n/d, NaN for 0/0, an infinity for x/0.
Ratio(n, d) ==
    [k |-> IF d # 0 THEN "num" ELSE IF n = 0 THEN "na" ELSE "inf",
     n |-> n, d |-> d]

\* groupby("product_name"): the groups; dropna defaults to True, so rows
\* with a missing product_name belong to no group.
ProductNames(df) ==
    {df[i].product_name : i \in {j \in DOMAIN df : NotNA(df[j].product_name)}}

\* ["net_sales"].sum() of one group (missing values are skipped).
ProductSales(df, name) ==
    [product_name |-> name,
     net_sales |-> SumOver(df, "net_sales",
                           {i \in DOMAIN df : df[i].product_name = name})]

\* The sums per product name, one row per group, in the order in which
\* the names first appear in df.
GroupSums(df) ==
    LET m == Mask(df, {i \in DOMAIN df :
                         /\ df[i].product_name \in ProductNames(df)
                         /\ \A j \in 1..(i - 1) :
                               df[j].product_name # df[i].product_name})
    IN  [g \in DOMAIN m |-> ProductSales(df, m[g].product_name)]

\* sort_values(ascending=False): row i goes to the place after the larger
\* sums and the equal sums before it (the order among equal sums is the
\* sort algorithm's; the sums, and so every other column, do not depend
\* on it).
SortDescending(s) ==
    LET place == [i \in DOMAIN s |->
                    1 + Cardinality({j \in DOMAIN s :
                                        \/ s[j].net_sales > s[i].net_sales
                                        \/ s[j].net_sales = s[i].net_sales
                                           /\ j < i})]
    IN  [p \in DOMAIN s |-> s[CHOOSE i \in DOMAIN s : place[i] = p]]

\* Series.cumsum(): the running sums of a sequence of integers.
CumSum(s) == [i \in DOMAIN s |-> SeqSum(SubSeq(s, 1, i))]

\* prod: the ranking with cum_sales and cum_pct = cum_sales / total.
ParetoFrame(df) ==
    LET ranked == SortDescending(GroupSums(df))
        sales == [i \in DOMAIN ranked |-> ranked[i].net_sales]
        cum == CumSum(sales)
        total == SeqSum(sales)
    IN  [i \in DOMAIN ranked |->
            [product_name |-> ranked[i].product_name,
             net_sales |-> ranked[i].net_sales,
             cum_sales |-> cum[i],
             cum_pct |-> Ratio(cum[i], total)]]

Pareto ==
    /\ pc = "pareto"
    /\ prod' = ParetoFrame(model)
    /\ pc' = "rfm"
    /\ UNCHANGED <<error, xlsx, orders, products, customers, returns_flag, model,
                   kpis, pivot_region_month, rfm, orphan_products,
                   orphan_customers, file>>

----------------------------------------------------------------------------
(* 11) RFM (customer segmentation) *)


Max(S) == CHOOSE x \in S : \A y \in S : y <= x

RECURSIVE Ascending(_)
Ascending(S) ==
    IF S = {} THEN <<>>
    ELSE LET x == CHOOSE a \in S : \A b \in S : a <= b
         IN  <<x>> \o Ascending(S \ {x})

\* model.groupby("customer_id").agg(...).reset_index() and recency_days:
\* one row per customer_id, ascending.
RfmFrame(df) ==
    LET ids == Ascending({df[i].customer_id.v : i \in DOMAIN df})
        ref_date == Max({df[i].order_date.v : i \in DOMAIN df}) + 1
        Of(c) == {i \in DOMAIN df : df[i].customer_id.v = c}
        Last(c) == Max({df[i].order_date.v : i \in Of(c)})
    IN  [n \in DOMAIN ids |->
            [customer_id |-> ids[n],
             last_purchase |-> Last(ids[n]),
             frequency |-> Cardinality({i \in Of(ids[n]) : NotNA(df[i].order_id)}),
             monetary |-> SumOver(df, "net_sales", Of(ids[n])),
             recency_days |-> ref_date - Last(ids[n])]]

\* Series.rank(method="first"): ascending rank, ties in row order.
RankFirst(x) ==
    [i \in DOMAIN x |->
        Cardinality({j \in DOMAIN x : x[j] < x[i]})
        + Cardinality({j \in 1..i : x[j] = x[i]})]

\* Series.quantile(k/q), linear interpolation, times q (so that the edge is
\* a whole number).
Edge(x, q, k) ==
    LET s == Sorted(x)
        h == (Len(x) - 1) * k
        lo == h \div q
        fr == h % q
    IN  q * s[lo + 1] + (IF fr = 0 THEN 0 ELSE fr * (s[lo + 2] - s[lo + 1]))

\* pd.qcut raises ValueError ("Bin edges must be unique") when two of the
\* q + 1 edges coincide, and has no edges for an empty series.
QCutRaises(x, q) ==
    \/ Len(x) = 0
    \/ \E j, k \in 0..q : j < k /\ Edge(x, q, j) = Edge(x, q, k)

\* The bin 1..q of v: bins are (edge, edge], the lowest edge included.
Bin(x, q, v) ==
    IF q * v = Edge(x, q, 0) THEN 1
    ELSE Cardinality({k \in 0..q : Edge(x, q, k) < q * v})

\* pd.qcut(x, q, labels=labels).astype(int)
QCut(x, q, labels) == [i \in DOMAIN x |-> labels[Bin(x, q, x[i])]]

Column(df, col) == [i \in DOMAIN df |-> df[i][col]]

\* (mutant) monetary cut into quartiles.
MScoreQuartiles(f) == QCut(RankFirst(Column(f, "monetary")), 4, <<1, 2, 3, 4>>)

RScore(f) == QCut(Column(f, "recency_days"), Quintiles, <<5, 4, 3, 2, 1>>)
FScore(f) == QCut(RankFirst(Column(f, "frequency")), Quintiles, <<1, 2, 3, 4, 5>>)
MScore(f) == QCut(RankFirst(Column(f, "monetary")), Quintiles, <<1, 2, 3, 4, 5>>)

RfmRaises(f) ==
    \/ QCutRaises(Column(f, "recency_days"), Quintiles)
    \/ QCutRaises(RankFirst(Column(f, "frequency")), Quintiles)
    \/ QCutRaises(RankFirst(Column(f, "monetary")), Quintiles)

Scored(f) ==
    [i \in DOMAIN f |->
        f[i] @@ [R |-> RScore(f)[i], F |-> FScore(f)[i], M |-> MScore(f)[i],
                 RFM_Score |-> RScore(f)[i] * 100 + FScore(f)[i] * 10
                               + MScore(f)[i]]]

RFM ==
    /\ pc = "rfm"
    /\ IF model = <<>> \/ RfmRaises(RfmFrame(model))
       THEN pc' = "failed" /\ error' = "ValueError" /\ UNCHANGED rfm
       ELSE pc' = "write" /\ rfm' = Scored(RfmFrame(model)) /\ UNCHANGED error
    /\ UNCHANGED <<xlsx, prod, orders, products, customers, returns_flag, model, kpis,
                   pivot_region_month, orphan_products, orphan_customers, file>>

----------------------------------------------------------------------------
(* 13) Write to Excel *)

\* DataFrame.head(n)
HeadRows(df, n) == SubSeq(df, 1, IF Len(df) < n THEN Len(df) ELSE n)

\* The rows of the Pareto_Products sheet.
ParetoProducts == HeadRows(prod, ParetoCap)

Sheets ==
    << "Clean_Orders", "Model_Data", "KPIs", "Pivot_Region_Month",
       "Pivot_Category", "Target_vs_Actual", "Pareto_Products",
       "Customer_RFM", "Anomalies" >>

\* with pd.ExcelWriter(OUTPUT_FILE) as w: nine to_excel calls.  Leaving the
\* block saves the workbook with the sheets added so far.  An I/O error may
\* end the block after any number n of sheets; whether the writer's exit then
\* still saves what it holds is left open.
WriteExcel ==
    /\ pc = "write"
    /\ \/ /\ file' = [exists |-> TRUE, sheets |-> Range(Sheets),
                      formatted |-> FALSE]
          /\ pc' = "format"
          /\ UNCHANGED error
       \/ /\ \E n \in 0..(Len(Sheets) - 1) :
                \/ file' = file
                \/ /\ n > 0
                   /\ file' = [exists |-> TRUE,
                               sheets |-> {Sheets[j] : j \in 1..n},
                               formatted |-> FALSE]
          /\ pc' = "failed"
          /\ error' = "OSError"
    /\ UNCHANGED <<xlsx, prod, orders, products, customers, returns_flag, model, kpis,
                   pivot_region_month, rfm, orphan_products, orphan_customers>>

----------------------------------------------------------------------------
(* 14) Excel Formatting + Charts *)

\* load_workbook(OUTPUT_FILE), styling, chart, wb.save(OUTPUT_FILE): the
\* workbook written in step 13 stays on disk until wb.save replaces it, so
\* an error before or in wb.save leaves the unstyled workbook.
FormatExcel ==
    /\ pc = "format"
    /\ \/ file' = [file EXCEPT !.formatted = TRUE] /\ pc' = "done"
                                                     /\ UNCHANGED error
       \/ file' = file /\ pc' = "failed" /\ error' = "OSError"
    /\ UNCHANGED <<xlsx, prod, orders, products, customers, returns_flag, model, kpis,
                   pivot_region_month, rfm, orphan_products, orphan_customers>>

----------------------------------------------------------------------------

Next ==
    \/ ReadSheets
    \/ CleanCustomers
    \/ CleanOrders
    \/ ReturnsIntegration
    \/ Merge
    \/ CalcColumns
    \/ KPIs
    \/ Pivots
    \/ Pareto
    \/ RFM
    \/ WriteExcel
    \/ FormatExcel

Spec == Init /\ [][Next]_vars

\* The same program on the segmentation workbooks.
SpecRfm == InitRfm /\ [][Next]_vars

\* The same program on the Pareto workbooks.
SpecPareto == InitPareto /\ [][Next]_vars

----------------------------------------------------------------------------
(* Positions of main() *)

Steps ==
    << "read", "clean_customers", "clean_orders", "returns", "merge", "calc",
       "kpis", "pivots", "pareto", "rfm", "write", "format", "done" >>

StepNo(p) == CHOOSE i \in DOMAIN Steps : Steps[i] = p

\* main() has run the section that leaves it at position p, and has not failed.
Past(p) == pc # "failed" /\ StepNo(pc) >= StepNo(p)

\* The raw Orders sheet after the type coercions of section 3.
RawOrders == [i \in DOMAIN xlsx.Orders |-> CoerceOrder(xlsx.Orders[i])]

\* A raw order row passes the validity filter of section 3.
ValidRow(r) ==
    /\ NotNA(r.order_id) /\ NotNA(r.order_date)
    /\ NotNA(r.customer_id) /\ NotNA(r.product_id)
    /\ NotNA(r.qty) /\ r.qty.v > 0

\* Row r has a row with its key in the reference sheet.
HasProduct(r) == \E j \in DOMAIN products : products[j].product_id = r.product_id
HasCustomer(r) ==
    \E j \in DOMAIN customers : customers[j].customer_id = r.customer_id

----------------------------------------------------------------------------
(* C1: every row of Model_Data satisfies gross_sales = qty * unit_price,  *)
(* discount_amt = gross_sales * discount_pct / 100, net_sales =           *)
(* gross_sales - discount_amt, tax_amt = net_sales * tax_rate, cogs =     *)
(* qty * cost and profit = (net_sales - tax_amt) - cogs, with tax_rate    *)
(* and cost taken as 0 for a row without a product (or without the value);*)
(* where unit_price itself is missing the sales amounts are missing too.  *)

RateOf(r) ==
    LET P == {j \in DOMAIN products : products[j].product_id = r.product_id}
    IN  IF P = {} THEN 0
        ELSE LET p == products[CHOOSE j \in P : TRUE]
             IN  IF IsNA(p.tax_rate) THEN 0 ELSE p.tax_rate.v

CostOf(r) ==
    LET P == {j \in DOMAIN products : products[j].product_id = r.product_id}
    IN  IF P = {} THEN 0
        ELSE LET p == products[CHOOSE j \in P : TRUE]
             IN  IF IsNA(p.cost) THEN 0 ELSE p.cost.v

RowIdentities(r) ==
    /\ NotNA(r.cogs) /\ r.cogs.v = r.qty.v * CostOf(r) * Percent * Percent
    /\ IF IsNA(r.unit_price)
       THEN /\ IsNA(r.gross_sales) /\ IsNA(r.discount_amt) /\ IsNA(r.net_sales)
            /\ IsNA(r.tax_amt) /\ IsNA(r.profit)
       ELSE /\ NotNA(r.gross_sales) /\ NotNA(r.discount_amt)
            /\ NotNA(r.net_sales) /\ NotNA(r.tax_amt) /\ NotNA(r.profit)
            /\ r.gross_sales.v = r.qty.v * r.unit_price.v * Percent * Percent
            /\ r.discount_amt.v * Percent = r.gross_sales.v * r.discount_pct.v
            /\ r.net_sales.v = r.gross_sales.v - r.discount_amt.v
            /\ r.tax_amt.v * Percent = r.net_sales.v * RateOf(r)
            /\ r.profit.v = (r.net_sales.v - r.tax_amt.v) - r.cogs.v

C1_MetricIdentities ==
    Past("kpis") => \A i \in DOMAIN model : RowIdentities(model[i])

\* A fact table holding a discounted, taxed row of a known product and a row
\* of an unknown product (no tax, no cost of goods).
C1_Witness ==
    /\ Past("kpis")
    /\ \E i \in DOMAIN model :
          /\ HasProduct(model[i]) /\ model[i].discount_amt.v > 0
          /\ model[i].tax_amt.v > 0 /\ model[i].cogs.v > 0
    /\ \E i \in DOMAIN model :
          /\ ~HasProduct(model[i]) /\ model[i].net_sales.v > 0
          /\ model[i].tax_amt = Num(0) /\ model[i].cogs = Num(0)
          /\ model[i].profit = model[i].net_sales

----------------------------------------------------------------------------
(* C2: every row of Clean_Orders and of Model_Data has qty > 0 and a      *)
(* unit_price that is not negative, and no raw row with qty <= 0, a       *)
(* negative unit_price or a missing order_id, order_date, customer_id or  *)
(* product_id is kept (a missing unit_price is the matter of C8).         *)

RowInBounds(r) ==
    /\ NotNA(r.qty) /\ r.qty.v > 0
    /\ NotNA(r.unit_price) => r.unit_price.v >= 0
    /\ NotNA(r.order_id) /\ NotNA(r.order_date)
    /\ NotNA(r.customer_id) /\ NotNA(r.product_id)

C2_ValidRowsOnly ==
    /\ Past("returns") => \A i \in DOMAIN orders : RowInBounds(orders[i])
    /\ Past("calc") => \A i \in DOMAIN model : RowInBounds(model[i])

----------------------------------------------------------------------------
(* C3 *)

\* The columns of the Orders sheet in row r of a frame, unit_price apart
\* (cleaning may impute it).
OrderPart(r) ==
    [order_id |-> r.order_id, order_date |-> r.order_date,
     customer_id |-> r.customer_id, product_id |-> r.product_id,
     qty |-> r.qty, discount_pct |-> r.discount_pct]

UniqueOrderIds(df) ==
    \A i, j \in DOMAIN df : df[i].order_id = df[j].order_id => i = j

\* The first row of the raw sheet, among the rows at positions I, that has
\* the order_id oid.
FirstOf(I, oid) ==
    LET J == {j \in I : RawOrders[j].order_id = oid}
    IN  CHOOSE j \in J : \A k \in J : j <= k

\* C3 as stated: on a completed run no two rows of Model_Data share an
\* order_id, and the row kept for an order_id is its first occurrence in
\* the Orders sheet.
C3_FirstOccurrenceOfInput ==
    pc = "done" =>
        /\ UniqueOrderIds(model)
        /\ \A i \in DOMAIN model :
              OrderPart(model[i]) =
                  OrderPart(RawOrders[FirstOf(DOMAIN RawOrders, model[i].order_id)])

\* C3 (amended): on a completed run no two rows of Model_Data share an
\* order_id, every order_id that has a row passing the validity filter has
\* a row in Model_Data, and the row kept is the first occurrence, in input
\* order, among the rows that pass the filter.
C3_FirstValidOccurrence ==
    LET V == {j \in DOMAIN RawOrders : ValidRow(RawOrders[j])}
    IN  pc = "done" =>
            /\ UniqueOrderIds(model)
            /\ \A j \in V : \E i \in DOMAIN model :
                  model[i].order_id = RawOrders[j].order_id
            /\ \A i \in DOMAIN model :
                  /\ \E j \in V : RawOrders[j].order_id = model[i].order_id
                  /\ OrderPart(model[i]) =
                         OrderPart(RawOrders[FirstOf(V, model[i].order_id)])

\* A completed run whose Orders sheet holds two valid rows with one
\* order_id and different customers.
C3_Witness ==
    /\ pc = "done"
    /\ \E i, j \in DOMAIN RawOrders :
          /\ i < j /\ ValidRow(RawOrders[i]) /\ ValidRow(RawOrders[j])
          /\ RawOrders[i].order_id = RawOrders[j].order_id
          /\ RawOrders[i].customer_id # RawOrders[j].customer_id

----------------------------------------------------------------------------
(* C4: orders without a matching product or customer stay in Model_Data,  *)
(* and the KPIs "Orphan Product Rows" / "Orphan Customer Rows" are the    *)
(* numbers of Model_Data rows whose product_id / customer_id matches no   *)
(* row of Products / Customers.                                           *)

C4_OrphanCounts ==
    Past("pivots") =>
        /\ Len(model) = Len(orders)
        /\ kpis["Orphan Product Rows"] =
               Cardinality({i \in DOMAIN model : ~HasProduct(model[i])})
        /\ kpis["Orphan Customer Rows"] =
               Cardinality({i \in DOMAIN model : ~HasCustomer(model[i])})

----------------------------------------------------------------------------
(* C5: Model_Data has exactly one row per cleaned order, in the same      *)
(* order, and is_returned is 1 on the rows whose order_id occurs in the   *)
(* Returns sheet and 0 on the others.                                     *)

InReturns(oid) == \E j \in DOMAIN xlsx.Returns : xlsx.Returns[j].order_id = oid

C5_ReturnsOnlyFlag ==
    Past("calc") =>
        /\ Len(model) = Len(orders)
        /\ \A i \in DOMAIN model :
              /\ OrderPart(model[i]) = OrderPart(orders[i])
              /\ model[i].is_returned =
                     (IF InReturns(model[i].order_id) THEN Num(1) ELSE Num(0))

\* A fact table with a returned and a non-returned order, built from a
\* Returns sheet that repeats an order_id or names an unknown order.
C5_Witness ==
    /\ Past("calc")
    /\ \E i, j \in DOMAIN model :
          model[i].is_returned = Num(1) /\ model[j].is_returned = Num(0)
    /\ \/ \E i, j \in DOMAIN xlsx.Returns :
             i < j /\ xlsx.Returns[i].order_id = xlsx.Returns[j].order_id
       \/ \E j \in DOMAIN xlsx.Returns :
             /\ NotNA(xlsx.Returns[j].order_id)
             /\ \A i \in DOMAIN orders :
                   orders[i].order_id # xlsx.Returns[j].order_id

----------------------------------------------------------------------------
(* C6: a run that fails, at whatever step, leaves no output workbook      *)
(* holding a result table.                                                *)

C6_NoOutputOnFailure == pc = "failed" => ~file.exists

----------------------------------------------------------------------------
(* C7: the net_sales of the (month, region) groups of Pivot_Region_Month  *)
(* add up to the KPI "Total Net Sales", rows without a region included.   *)

PivotNetSales == [i \in DOMAIN pivot_region_month |-> pivot_region_month[i].net_sales]

C7_PivotSumsToTotal ==
    Past("rfm") => SeqSum(PivotNetSales) = kpis["Total Net Sales"]

\* A pivot with a group of orphan-customer rows (no region) that carries
\* sales, next to a group with a region.
C7_Witness ==
    /\ Past("rfm")
    /\ \E i, j \in DOMAIN pivot_region_month :
          /\ IsNA(pivot_region_month[i].region)
          /\ pivot_region_month[i].net_sales > 0
          /\ NotNA(pivot_region_month[j].region)
          /\ pivot_region_month[j].net_sales > 0

----------------------------------------------------------------------------
(* C8: after cleaning no order row has a missing unit_price, and a row    *)
(* whose unit_price was missing or not a number carries the median of all *)
(* the valid unit_price values of the Orders sheet.                       *)

C8_MedianImputed ==
    LET V == {j \in DOMAIN RawOrders : ValidRow(RawOrders[j])}
    IN  Past("returns") =>
            \A i \in DOMAIN orders :
                /\ NotNA(orders[i].unit_price)
                /\ IsNA(RawOrders[FirstOf(V, orders[i].order_id)].unit_price)
                       => orders[i].unit_price = Median(RawOrders)

----------------------------------------------------------------------------
(* C9: for every non-empty set of customers the RFM scoring completes,    *)
(* gives every customer R, F and M tiers in 1..5 and RFM_Score =          *)
(* R*100 + F*10 + M; R never increases with recency_days, F and M never   *)
(* decrease with frequency and monetary.                                  *)

C9_RfmScoresEveryCustomer ==
    /\ (error = "ValueError") => model = <<>>
    /\ Past("write") =>
          /\ {rfm[i].customer_id : i \in DOMAIN rfm}
                 = {model[i].customer_id.v : i \in DOMAIN model}
          /\ \A i \in DOMAIN rfm :
                /\ rfm[i].R \in 1..Quintiles /\ rfm[i].F \in 1..Quintiles
                /\ rfm[i].M \in 1..Quintiles
                /\ rfm[i].RFM_Score = rfm[i].R * 100 + rfm[i].F * 10 + rfm[i].M
          /\ \A i, j \in DOMAIN rfm :
                /\ rfm[i].recency_days < rfm[j].recency_days
                       => rfm[i].R >= rfm[j].R
                /\ rfm[i].frequency < rfm[j].frequency => rfm[i].F <= rfm[j].F
                /\ rfm[i].monetary < rfm[j].monetary => rfm[i].M <= rfm[j].M

----------------------------------------------------------------------------
(* C10: when the number of customers is a multiple of 5 and their         *)
(* monetary values are pairwise distinct, each of the 5 M tiers holds     *)
(* exactly one fifth of the customers.                                    *)

DistinctMonetary ==
    \A i, j \in DOMAIN rfm : rfm[i].monetary = rfm[j].monetary => i = j

C10_EqualMTiers ==
    (Past("write") /\ Len(rfm) % Quintiles = 0 /\ DistinctMonetary) =>
        \A t \in 1..Quintiles :
            Cardinality({i \in DOMAIN rfm : rfm[i].M = t}) * Quintiles = Len(rfm)

\* Ten scored customers with pairwise distinct monetary values that are
\* not in ascending row order.
C10_Witness ==
    /\ Past("write") /\ Len(rfm) = 2 * Quintiles /\ DistinctMonetary
    /\ \E i, j \in DOMAIN rfm : i < j /\ rfm[i].monetary > rfm[j].monetary

----------------------------------------------------------------------------
(* C11: in Pareto_Products the products are ranked by descending summed   *)
(* net_sales and cum_pct is the running cumulative net_sales divided by   *)
(* the total; when the ranking has at most 200 products the cum_pct of    *)
(* the last ranked product equals 1.0, and when the ranking is cut at 200 *)
(* products cum_pct increases along the rank and stays below 1.0.         *)

\* Comparisons of the floats Ratio builds; NaN compares False.
IsOne(c) == c.k = "num" /\ c.n = c.d
BelowOne(c) ==
    c.k = "num" /\ ((c.d > 0 /\ c.n < c.d) \/ (c.d < 0 /\ c.n > c.d))
Increases(a, b) ==
    /\ a.k = "num" /\ b.k = "num" /\ a.d = b.d
    /\ (a.d > 0 /\ a.n < b.n) \/ (a.d < 0 /\ a.n > b.n)

\* The summed net_sales of the model rows of one product name.
SummedNetSales(name) ==
    SeqSum([i \in DOMAIN model |->
               IF model[i].product_name = name /\ NotNA(model[i].net_sales)
               THEN model[i].net_sales.v ELSE 0])

\* The total net_sales of the ranked products.
RankedTotal == SeqSum([i \in DOMAIN prod |-> prod[i].net_sales])

C11_ParetoCumPct ==
    "Pareto_Products" \in file.sheets =>
        LET s == ParetoProducts
            n == Len(s)
        IN  /\ \A i \in 1..n :
                  /\ s[i].net_sales = SummedNetSales(s[i].product_name)
                  /\ i < n => s[i].net_sales >= s[i + 1].net_sales
                  /\ s[i].cum_pct
                       = Ratio(SeqSum([j \in 1..i |-> s[j].net_sales]),
                               RankedTotal)
            /\ (n > 0 /\ Len(prod) <= ParetoCap) => IsOne(s[n].cum_pct)
            /\ Len(prod) > ParetoCap =>
                  \A i \in 1..n :
                      /\ BelowOne(s[i].cum_pct)
                      /\ i < n => Increases(s[i].cum_pct, s[i + 1].cum_pct)

====
